---- MODULE Spec2Model ----
(***************************************************************************)
(* The ELT pipeline of pipeline-elt-iim as a state machine.               *)
(*                                                                         *)
(*   silver bucket --gold_aggregation_flow--> gold bucket                  *)
(*   gold bucket   --gold_to_mongo_flow-----> MongoDB (store, meta)        *)
(*   MongoDB       --app/api.py--------------> readers                     *)
(*                                                                         *)
(* Object names are pairs <<stem, extension>> so that os.path.splitext is  *)
(* a projection.  Times are logical: `clock` counts the upstream writes    *)
(* to the gold bucket, an object's last_modified is the clock value of     *)
(* the write that produced it.                                             *)
(***************************************************************************)
EXTENDS Integers, Sequences, FiniteSets, TLC

VARIABLES
    silver,       \* names of the objects present in the silver bucket
    goldBucket,   \* whether the gold bucket exists
    gold,         \* gold bucket: object name -> version (0 = absent)
    clock,        \* logical time
    aPc,          \* gold_aggregation_flow: position
    aIdx,         \* gold_aggregation_flow: uploads done in the running / last run
    aAttempt,     \* gold_aggregation_flow: run count of the flow (Prefect)
    aRun,         \* gold_aggregation_flow: clock value of the running / last run
    aOutcome,     \* gold_aggregation_flow: how the last run ended
    aComplete,    \* runs of the aggregation that uploaded all four tables
    fPc,          \* gold_to_mongo_flow: position
    fObjs,        \* gold_to_mongo_flow: objs still to process
    fCur,         \* gold_to_mongo_flow: obj of the current iteration
    fDf,          \* gold_to_mongo_flow: df read from the current object
    fAttempt,     \* run count of the task being executed (Prefect)
    fAnyFailed,   \* an iteration of the current / last flow run hit the except
    fOutcome,     \* gold_to_mongo_flow: how the last run ended
    fRuns,        \* number of gold_to_mongo_flow runs started
    store,        \* MongoDB: collection name -> documents, in insertion order
    collections,  \* MongoDB: names db.list_collection_names() returns
    meta,         \* MongoDB: documents of the ingest_metadata collection
    obs,          \* last response of the API
    req,          \* request the API is handling, between its two awaits
    faults,       \* storage failures injected so far
    hist,         \* history per collection: publications invoked, succeeded, raised
    ioLog,        \* history: how the last failed storage operation was handled
    clients,      \* compute_kpis: the clients table
    achats,       \* compute_kpis: the achats table
    kpis,         \* compute_kpis: the returned tables
    kPc,          \* compute_kpis: position
    raw,          \* transform_dataframe: the DataFrame the caller passes
    cleaned,      \* transform_dataframe: the DataFrame returned last
    cRuns,        \* transform_dataframe: calls made on raw
    bronze,       \* bronze bucket: object name -> whether it is valid CSV
    sPc,          \* silver_transformation_flow: position
    sObjs,        \* silver_transformation_flow: objects still to process
    sLog,         \* history: outcome of process_object per object of the run
    mPc,          \* run_all.main: position
    keep_server,  \* run_all.main: args.keep_server
    timeout,      \* run_all.main: args.timeout
    elapsed,      \* wait_for_api: seconds slept so far
    servers,      \* the uvicorn processes: one that ran before main, one main starts
    server_proc,  \* run_all.main: the process main started, or "none" (None)
    api_started_by_script,  \* run_all.main
    mCols,        \* fetch_and_print_metadata: cols still to go through
    mLog,         \* history: status of the metadata request per collection
    mExit         \* history: how main ended

vars == <<silver, goldBucket, gold, clock, aPc, aIdx, aAttempt, aRun, aOutcome, aComplete,
          fPc, fObjs, fCur, fDf, fAttempt, fAnyFailed, fOutcome, fRuns,
          store, collections, meta, obs, req, faults, hist, ioLog,
          clients, achats, kpis, kPc, raw, cleaned, cRuns, bronze, sPc, sObjs, sLog,
          mPc, keep_server, timeout, elapsed, servers, server_proc,
          api_started_by_script, mCols, mLog, mExit>>

aggVars   == <<aPc, aIdx, aAttempt, aRun, aOutcome, aComplete>>
flowVars  == <<fPc, fObjs, fCur, fDf, fAttempt, fAnyFailed, fOutcome, fRuns>>
mongoVars == <<store, collections, meta>>
kpiVars   == <<clients, achats, kpis, kPc>>
cleanVars == <<raw, cleaned, cRuns>>
silverVars == <<bronze, sPc, sObjs, sLog>>
runVars == <<mPc, keep_server, timeout, elapsed, servers, server_proc,
            api_started_by_script, mCols, mLog, mExit>>

----------------------------------------------------------------------------
(* Bounds of the model *)

MaxRun == 2        \* upstream writes to the gold bucket (clock values)
MaxRows == 2       \* rows of a KPI table
MaxFaults == 2     \* injected storage failures
MaxFlows == 2      \* runs of gold_to_mongo_flow
NumObjs == 2       \* gold objects the publication specification works on
MaxClients == 2    \* rows of the clients table given to compute_kpis
MaxAchats == 2     \* rows of the achats table given to compute_kpis
MaxRawRows == 2    \* rows of a raw extract
MaxCleanRuns == 2  \* calls of transform_dataframe on one extract
MaxBronze == 2     \* objects of the bronze bucket
MaxMetaDocs == 1   \* records of ingest_metadata when get_metadata is called
MaxTimeout == 2    \* seconds run_all waits for the API (--timeout)

(* Program constants *)

TaskRetries == 1   \* @task(retries=1)
FlowRetries == 0   \* @flow(name=...) : no retries argument
DefaultLimit == 100

----------------------------------------------------------------------------
(* Names *)

Min(a, b) == IF a < b THEN a ELSE b

\* The four uploads of gold_aggregation_flow, in the order of the code.
KpiOrder == <<"volumes_day", "volumes_month", "ca_by_country", "monthly_revenue">>

KpiStems == {KpiOrder[i] : i \in 1..Len(KpiOrder)}

ObjName(stem) == <<stem, "csv">>

GoldNames == {ObjName(s) : s \in KpiStems}

\* client.list_objects returns the names in lexicographic order.
ListOrder == <<"ca_by_country", "monthly_revenue", "volumes_day", "volumes_month">>

\* os.path.splitext(name)[0]
splitext0(name) == name[1]

MetaColl == "ingest_metadata"

\* The collections a MongoDB database may hold that no flow of the pipeline
\* creates: system.views exists as soon as the database has a view, and
\* holds one document per view (here one view).
SystemColls == {"system.views"}

ViewDocs == <<[view |-> "v"]>>

NoObj == [name |-> <<"", "">>, lm |-> 0]

NoObs == [op |-> "none", name |-> "", status |-> 0, docs |-> <<>>, count |-> 0]

NoReq == [op |-> "none", name |-> "", skip |-> 0]

NoHist == [state |-> "none", calls |-> 0, lastLm |-> 0, raised |-> <<>>,
           okEver |-> FALSE, okRows |-> <<>>, okLm |-> 0]

NoIo == [stage |-> "none", tries |-> 0, fatal |-> FALSE]

----------------------------------------------------------------------------
(* MongoDB, as pymongo / motor act on it *)

\* What write_df_to_mongo would do without its delete: nothing goes.
delete_none(st, c) == st

\* Collection.delete_many({}): every document goes, the collection stays.
delete_many(st, c) == [st EXCEPT ![c] = <<>>]

\* Collection.insert_many(records) of which the first k reach the server
\* (k = Len(records) when the call returns, k < Len(records) when it raises).
insert_many(st, c, records, k) == [st EXCEPT ![c] = st[c] \o SubSeq(records, 1, k)]

\* Collection.count_documents({}) on collection c of the database st: a
\* collection that does not exist counts 0.
count_documents(st, c) == IF c \in DOMAIN st THEN Len(st[c]) ELSE 0

MetaIdx(m, c) == {i \in 1..Len(m) : m[i].collection = c}

\* A faulty variant of find_one: the filter is ignored.
find_first(m, c) == IF m = <<>> THEN <<>> ELSE <<m[1]>>

\* Collection.find_one({"collection": c}) as a sequence of zero or one document.
find_one(m, c) ==
    IF MetaIdx(m, c) = {} THEN <<>>
    ELSE <<m[CHOOSE i \in MetaIdx(m, c) : \A j \in MetaIdx(m, c) : i <= j]>>

\* What a plausible slip does instead of the upsert: insert_one(meta).
insert_one_meta(m, c, doc) == Append(m, doc)

\* Collection.update_one({"collection": c}, {"$set": doc}, upsert=True):
\* the first matching document is set, or doc is inserted when none matches.
update_one(m, c, doc) ==
    IF MetaIdx(m, c) = {} THEN Append(m, doc)
    ELSE LET i == CHOOSE i \in MetaIdx(m, c) : \A j \in MetaIdx(m, c) : i <= j
         IN  [m EXCEPT ![i] = doc]

----------------------------------------------------------------------------
(* flows/gold_to_mongo.py *)

\* The rows of version v of a gold object: successive versions differ in
\* content and in size (version 1 has two rows), and every (MaxRows+1)-th
\* version, starting with version MaxRows, is an empty table.
read_object_to_df(v) == [i \in 1..((v + 1) % (MaxRows + 1)) |-> v]

\* list(client.list_objects(BUCKET_GOLD, recursive=True)): name and
\* last_modified of every object, as of the listing.
list_objects(g) ==
    LET present == SelectSeq(ListOrder, LAMBDA s : g[ObjName(s)] # 0)
    IN  [i \in 1..Len(present) |->
            [name |-> ObjName(present[i]), lm |-> g[ObjName(present[i])]]]

\* The meta document write_df_to_mongo builds.
MetaDoc(c, metadata, now) ==
    [collection |-> c, ingest_time |-> now,
     object_name |-> metadata.object_name, last_modified |-> metadata.last_modified]

\* The final state of a flow run whose function returns None, the except
\* clause having absorbed what the tasks raised.  Prefect 3 takes it from the
\* return value alone (completed); Prefect 2 falls back to the states of the
\* task runs (failed when one of them failed).  The source pins no version.
FlowReturn(anyFailed) == IF anyFailed THEN {"completed", "failed"} ELSE {"completed"}

\* The for loop takes its next object, or the flow returns.
NextObj(objs, failed) ==
    /\ fAnyFailed' = (fAnyFailed \/ failed)
    /\ fAttempt' = 1
    /\ fDf' = <<>>
    /\ fRuns' = fRuns
    /\ IF Len(objs) = 0
       THEN fPc' = "idle" /\ fCur' = NoObj /\ fObjs' = <<>>
            /\ fOutcome' \in FlowReturn(fAnyFailed \/ failed)
       ELSE fPc' = "read" /\ fCur' = Head(objs) /\ fObjs' = Tail(objs)
            /\ fOutcome' = fOutcome

\* Prefect runs the task body again.
Retry(restart) ==
    /\ fAttempt' = fAttempt + 1
    /\ fPc' = restart
    /\ UNCHANGED <<fObjs, fCur, fDf, fAnyFailed, fOutcome, fRuns>>

Coll == splitext0(fCur.name)

\* A task body raised: the task runs again while retries are left, and then
\* the exception reaches the except clause of the loop, which prints it.
TaskRaise(restart, isWrite) ==
    /\ faults < MaxFaults
    /\ faults' = faults + 1
    /\ IF fAttempt <= TaskRetries
       THEN /\ Retry(restart)
            /\ hist' = IF isWrite THEN [hist EXCEPT ![Coll].raised = Append(@, fPc)]
                        ELSE hist
            /\ UNCHANGED ioLog
       ELSE /\ NextObj(fObjs, TRUE)
            /\ ioLog' = [stage |-> "publication", tries |-> fAttempt, fatal |-> FALSE]
            /\ hist' = IF isWrite
                        THEN [hist EXCEPT ![Coll].state = "failed",
                                          ![Coll].raised = Append(@, fPc)]
                        ELSE hist

gold_to_mongo_flow ==
    /\ fPc = "idle"
    /\ fRuns < MaxFlows
    /\ fRuns' = fRuns + 1
    /\ IF ~goldBucket
       THEN /\ fOutcome' \in FlowReturn(FALSE)
            /\ fAnyFailed' = FALSE
            /\ UNCHANGED <<fPc, fObjs, fCur, fDf, fAttempt>>
       ELSE /\ LET objs == list_objects(gold) IN
               IF Len(objs) = 0
               THEN fPc' = "idle" /\ fCur' = NoObj /\ fObjs' = <<>>
                    /\ fOutcome' \in FlowReturn(FALSE)
               ELSE fPc' = "read" /\ fCur' = Head(objs) /\ fObjs' = Tail(objs)
                    /\ fOutcome' = "running"
            /\ fAnyFailed' = FALSE
            /\ fAttempt' = 1
            /\ fDf' = <<>>
    /\ UNCHANGED <<runVars, req, silver, goldBucket, gold, clock, aggVars, mongoVars, obs, faults,
                   hist, ioLog, kpiVars,
                   cleanVars, silverVars>>

\* df = read_object_to_df(BUCKET_GOLD, name), then the call of write_df_to_mongo
ReadObject ==
    /\ fPc = "read"
    /\ \/ /\ fDf' = read_object_to_df(gold[fCur.name])
          /\ fPc' = "w_delete"
          /\ fAttempt' = 1
          /\ hist' = [hist EXCEPT ![Coll].state = "running", ![Coll].calls = @ + 1, ![Coll].raised = <<>>,
                                  ![Coll].lastLm = fCur.lm]
          /\ UNCHANGED <<fObjs, fCur, fAnyFailed, fOutcome, fRuns, faults, ioLog>>
       \/ TaskRaise("read", FALSE)
    /\ UNCHANGED <<runVars, req, silver, goldBucket, gold, clock, aggVars, mongoVars, obs, kpiVars,
                   cleanVars, silverVars>>

\* write_df_to_mongo: db[collection_name].delete_many({})
WriteDelete ==
    /\ fPc = "w_delete"
    /\ \/ /\ store' = delete_many(store, Coll)
          /\ fPc' = IF fDf = <<>> THEN "w_meta" ELSE "w_insert"
          /\ UNCHANGED <<fObjs, fCur, fDf, fAttempt, fAnyFailed, fOutcome, fRuns,
                         faults, hist, ioLog>>
       \/ TaskRaise("w_delete", TRUE) /\ UNCHANGED store
    /\ UNCHANGED <<runVars, req, silver, goldBucket, gold, clock, aggVars, collections, meta, obs,
                   kpiVars,
                   cleanVars, silverVars>>

\* write_df_to_mongo: db[collection_name].insert_many(records)
WriteInsert ==
    /\ fPc = "w_insert"
    /\ \/ /\ store' = insert_many(store, Coll, fDf, Len(fDf))
          /\ collections' = collections \cup {Coll}
          /\ fPc' = "w_meta"
          /\ UNCHANGED <<fObjs, fCur, fDf, fAttempt, fAnyFailed, fOutcome, fRuns,
                         faults, hist, ioLog>>
       \/ \E k \in 0..(Len(fDf) - 1) :
             /\ store' = insert_many(store, Coll, fDf, k)
             /\ collections' = IF k > 0 THEN collections \cup {Coll} ELSE collections
             /\ TaskRaise("w_delete", TRUE)
    /\ UNCHANGED <<runVars, req, silver, goldBucket, gold, clock, aggVars, meta, obs, kpiVars,
                   cleanVars, silverVars>>

\* write_df_to_mongo: db["ingest_metadata"].update_one(..., upsert=True), return
WriteMeta ==
    /\ fPc = "w_meta"
    /\ \/ /\ meta' = update_one(meta, Coll,
                        MetaDoc(Coll, [object_name |-> fCur.name,
                                       last_modified |-> fCur.lm], clock))
          /\ collections' = collections \cup {MetaColl}
          /\ hist' = [hist EXCEPT ![Coll].state = "ok", ![Coll].okEver = TRUE,
                                  ![Coll].okRows = fDf, ![Coll].okLm = fCur.lm]
          /\ NextObj(fObjs, FALSE)
          /\ UNCHANGED <<faults, ioLog>>
       \/ TaskRaise("w_delete", TRUE) /\ UNCHANGED <<meta, collections>>
    /\ UNCHANGED <<runVars, req, silver, goldBucket, gold, clock, aggVars, store, obs, kpiVars,
                   cleanVars, silverVars>>

----------------------------------------------------------------------------
(* app/api.py: the read side *)

\* The documents of a collection: those of a KPI table, the records of
\* ingest_metadata, the view definitions of system.views.
Documents(name) ==
    IF name \in DOMAIN store THEN store[name]
    ELSE IF name = MetaColl THEN meta
    ELSE IF name \in SystemColls THEN ViewDocs
    ELSE <<>>

\* db = client[MONGO_DB]: the collections that exist, with their documents
db == [c \in collections |-> Documents(c)]

\* cursor.skip(skip).limit(limit): Cursor.skip raises ValueError for a
\* negative skip; a limit of 0 is no limit, a negative limit is its absolute
\* value (in one batch).
Page(docs, skip, limit) ==
    LET n == IF limit = 0 THEN Len(docs) ELSE IF limit < 0 THEN 0 - limit ELSE limit
    IN  IF skip < 0 THEN [raised |-> TRUE, docs |-> <<>>]
        ELSE [raised |-> FALSE, docs |-> SubSeq(docs, skip + 1, Min(Len(docs), skip + n))]

NotFound(op, name) ==
    [op |-> op, name |-> name, status |-> 404, docs |-> <<>>, count |-> 0]

\* An exception the handler does not catch: 500
ServerError(op, name) ==
    [op |-> op, name |-> name, status |-> 500, docs |-> <<>>, count |-> 0]

\* get_collection after its 404 test: db[name].find().limit(limit)
get_collection_cursor(name, limit) ==
    [op |-> "get_collection", name |-> name, status |-> 200,
     docs |-> Page(db[name], 0, limit).docs, count |-> 0]

\* GET /collections/{name}
get_collection(name, limit) ==
    IF name \notin collections THEN NotFound("get_collection", name)
    ELSE get_collection_cursor(name, limit)

\* get_collection_items after its 404 test: db[name].find(query).skip(skip)
\* .limit(limit) ; filter is <<>> or <<value>>
get_collection_items_cursor(name, limit, skip, filter) ==
    LET found == IF filter = <<>> THEN db[name]
                 ELSE SelectSeq(db[name], LAMBDA d : d = filter[1])
        page == Page(found, skip, limit)
    IN  IF page.raised THEN ServerError("get_collection_items", name)
        ELSE [op |-> "get_collection_items", name |-> name, status |-> 200,
              docs |-> page.docs, count |-> Len(page.docs)]

\* GET /collections/{name}/items
get_collection_items(name, limit, skip, filter) ==
    IF name \notin collections THEN NotFound("get_collection_items", name)
    ELSE get_collection_items_cursor(name, limit, skip, filter)

\* count_collection after its 404 test: db[name].count_documents({})
count_collection_count(name) ==
    [op |-> "count_collection", name |-> name, status |-> 200,
     docs |-> <<>>, count |-> count_documents(db, name)]

\* GET /collections/{name}/count
count_collection(name) ==
    IF name \notin collections THEN NotFound("count_collection", name)
    ELSE count_collection_count(name)

\* The objects the publication specification works on.
PubStems == {ListOrder[i] : i \in 1..Min(NumObjs, Len(ListOrder))}

\* The names a reader asks for: the tables of the publication and the
\* bookkeeping collection.
ReadNames == PubStems \cup {MetaColl}

\* get_collection: `if name not in await db.list_collection_names()`.  The handler
\* answers 404, or goes on to its second await.
ReadGet(n) ==
    /\ req = NoReq
    /\ IF n \notin collections
       THEN obs' = NotFound("get_collection", n) /\ req' = req
       ELSE req' = [op |-> "get_collection", name |-> n, skip |-> 0] /\ obs' = obs
    /\ UNCHANGED <<runVars, silver, goldBucket, gold, clock, aggVars, flowVars, mongoVars,
                   faults, hist, ioLog, kpiVars,
                   cleanVars, silverVars>>

\* get_collection: the cursor is read, `async for d in cursor`
ReadGetCursor ==
    /\ req.op = "get_collection"
    /\ obs' = get_collection_cursor(req.name, DefaultLimit)
    /\ req' = NoReq
    /\ UNCHANGED <<runVars, silver, goldBucket, gold, clock, aggVars, flowVars, mongoVars,
                   faults, hist, ioLog, kpiVars,
                   cleanVars, silverVars>>

\* get_collection_items: `if name not in await db.list_collection_names()`.  The handler
\* answers 404, or goes on to its second await.
ReadItems(n) ==
    /\ req = NoReq
    /\ \E skip \in -1..1 :
       IF n \notin collections
       THEN obs' = NotFound("get_collection_items", n) /\ req' = req
       ELSE req' = [op |-> "get_collection_items", name |-> n, skip |-> skip] /\ obs' = obs
    /\ UNCHANGED <<runVars, silver, goldBucket, gold, clock, aggVars, flowVars, mongoVars,
                   faults, hist, ioLog, kpiVars,
                   cleanVars, silverVars>>

\* get_collection_items: the cursor is read, `async for d in cursor`
ReadItemsCursor ==
    /\ req.op = "get_collection_items"
    /\ obs' = get_collection_items_cursor(req.name, DefaultLimit, req.skip, <<>>)
    /\ req' = NoReq
    /\ UNCHANGED <<runVars, silver, goldBucket, gold, clock, aggVars, flowVars, mongoVars,
                   faults, hist, ioLog, kpiVars,
                   cleanVars, silverVars>>

\* count_collection: `if name not in await db.list_collection_names()`.  The handler
\* answers 404, or goes on to its second await.
ReadCount(n) ==
    /\ req = NoReq
    /\ IF n \notin collections
       THEN obs' = NotFound("count_collection", n) /\ req' = req
       ELSE req' = [op |-> "count_collection", name |-> n, skip |-> 0] /\ obs' = obs
    /\ UNCHANGED <<runVars, silver, goldBucket, gold, clock, aggVars, flowVars, mongoVars,
                   faults, hist, ioLog, kpiVars,
                   cleanVars, silverVars>>

\* count_collection: `await db[name].count_documents({})`
ReadCountCount ==
    /\ req.op = "count_collection"
    /\ obs' = count_collection_count(req.name)
    /\ req' = NoReq
    /\ UNCHANGED <<runVars, silver, goldBucket, gold, clock, aggVars, flowVars, mongoVars,
                   faults, hist, ioLog, kpiVars,
                   cleanVars, silverVars>>

----------------------------------------------------------------------------
(* The gold bucket as the publication sees it change *)

\* client.put_object(BUCKET_GOLD, name, ...) by an upstream run: the object
\* gets a new version, stamped with the time of the write.
put_object(g, name, now) == [g EXCEPT ![name] = now]

UpstreamPut(n) ==
    /\ goldBucket
    /\ clock < MaxRun
    /\ clock' = clock + 1
    /\ gold' = put_object(gold, n, clock + 1)
    /\ UNCHANGED <<runVars, req, silver, goldBucket, aggVars, flowVars, mongoVars, obs, faults,
                   hist, ioLog, kpiVars,
                   cleanVars, silverVars>>

----------------------------------------------------------------------------
(* Initial states *)

InitBuckets ==
    /\ silver = {}
    /\ goldBucket = TRUE
    /\ gold = [n \in GoldNames |-> 0]
    /\ clock = 0

InitAgg ==
    /\ aPc = "idle"
    /\ aIdx = 0
    /\ aAttempt = 1
    /\ aRun = 0
    /\ aOutcome = "none"
    /\ aComplete = {}

InitFlow ==
    /\ fPc = "idle"
    /\ fObjs = <<>>
    /\ fCur = NoObj
    /\ fDf = <<>>
    /\ fAttempt = 1
    /\ fAnyFailed = FALSE
    /\ fOutcome = "none"
    /\ fRuns = 0

InitMongo ==
    /\ store = [c \in KpiStems |-> <<>>]
    /\ collections = {}
    /\ meta = <<>>
    /\ obs = NoObs
    /\ req = NoReq

InitHist ==
    /\ hist = [c \in KpiStems |-> NoHist]
    /\ ioLog = NoIo

NoDf == [columns |-> <<>>, rows |-> <<>>]

InitClean ==
    /\ raw = NoDf
    /\ cleaned = NoDf
    /\ cRuns = 0

InitSilver ==
    /\ bronze = <<>>
    /\ sPc = "idle"
    /\ sObjs = <<>>
    /\ sLog = <<>>

NoServers == [external |-> "absent", child |-> "absent"]

InitRun ==
    /\ mPc = "idle"
    /\ keep_server = FALSE
    /\ timeout = 0
    /\ elapsed = 0
    /\ servers = NoServers
    /\ server_proc = "none"
    /\ api_started_by_script = FALSE
    /\ mCols = <<>>
    /\ mLog = <<>>
    /\ mExit = "none"

InitKpi ==
    /\ clients = <<>>
    /\ achats = <<>>
    /\ kpis = [volumes_day |-> <<>>, volumes_month |-> <<>>, ca_by_country |-> <<>>,
               monthly_revenue |-> <<>>]
    /\ kPc = "idle"

----------------------------------------------------------------------------
(* Publication: gold_to_mongo_flow runs against a gold bucket that        *)
(* upstream runs keep overwriting.                                        *)

Init ==
    /\ InitBuckets /\ InitAgg /\ InitFlow /\ InitMongo /\ InitHist /\ InitKpi
    /\ InitClean /\ InitSilver /\ InitRun
    /\ faults = 0

Next ==
    \/ gold_to_mongo_flow
    \/ ReadObject
    \/ WriteDelete
    \/ WriteInsert
    \/ WriteMeta
    \/ \E n \in PubStems : UpstreamPut(ObjName(n))

Spec == Init /\ [][Next]_vars

(* Publication with the API serving reads meanwhile. *)

NextApi ==
    \/ Next
    \/ \E n \in ReadNames : ReadGet(n)
    \/ ReadGetCursor
    \/ \E n \in ReadNames : ReadItems(n)
    \/ ReadItemsCursor
    \/ \E n \in ReadNames : ReadCount(n)
    \/ ReadCountCount

SpecApi == Init /\ [][NextApi]_vars

----------------------------------------------------------------------------
(* Claims about the publication *)

\* write_df_to_mongo is between its first statement and its return, on c.
Publishing(c) == fPc \in {"w_delete", "w_insert", "w_meta"} /\ Coll = c

\* The complete contents a reader of c may be served while c is published:
\* the last successfully published one, and the one being written.
Whole(c) == {hist[c].okRows, fDf}

\* C1: while a publication of table T is in progress, every read of T
\* (get_collection, get_collection_items, count_collection) returns the
\* complete previously published content or the complete new content, never
\* an empty or partly filled T.
C1_ReadsSeeWholeTable ==
    [][\A n \in PubStems :
          /\ (ReadGetCursor /\ req.name = n /\ Publishing(n)) => obs'.docs \in Whole(n)
          /\ (ReadCountCount /\ req.name = n /\ Publishing(n)) =>
                obs'.count \in {Len(d) : d \in Whole(n)}
          /\ (ReadItemsCursor /\ req.name = n /\ Publishing(n)) =>
                obs'.docs \in {Page(d, req.skip, DefaultLimit).docs : d \in Whole(n)}
      ]_vars

\* C2: after a failed publication of T (the task raised on its attempt and on
\* its retry) the content of T is that of the last successful publication.
C2_FailedPublishLeavesTable ==
    \A c \in KpiStems :
        (hist[c].state = "failed" /\ hist[c].raised = <<"w_insert", "w_insert">>)
            => Documents(c) = hist[c].okRows

\* C3: a run of gold_to_mongo_flow in which reading or writing a table failed
\* does not end in a success state.
C3_FailureIsReported ==
    (fPc = "idle" /\ fAnyFailed) => fOutcome # "completed"

\* C4: once a publication of dataset D under T has succeeded, whatever
\* attempts came before, the documents of T are exactly the rows of D and
\* their count is the size of D (zero for an empty D).
C4_FullReplace ==
    \A c \in KpiStems :
        hist[c].state = "ok" =>
            /\ Documents(c) = hist[c].okRows
            /\ count_documents(db, c) = Len(hist[c].okRows)

\* C4 witness: a publication succeeded on a table that was published before,
\* after storage failures, with content; and another one succeeded with an
\* empty table where documents had been.
C4_Witness ==
    \E c \in KpiStems :
        /\ hist[c].state = "ok"
        /\ hist[c].calls >= 2
        /\ faults >= 1
        /\ hist[c].okRows # <<>>

\* C5 as stated: every name on which publish was invoked has exactly one
\* metadata record, carrying the last_modified of the most recent publish.
C5_OneRecordPerInvokedName ==
    \A c \in KpiStems :
        (hist[c].calls > 0 /\ hist[c].state # "running") =>
            /\ Cardinality(MetaIdx(meta, c)) = 1
            /\ find_one(meta, c)[1].last_modified = hist[c].lastLm

\* C5 (amended): no name ever has two metadata records; a name has a record
\* exactly when a publication of it has succeeded, and the record carries the
\* last_modified supplied to the most recent successful publication.
C5_OneRecordPerPublishedName ==
    \A c \in KpiStems :
        /\ Cardinality(MetaIdx(meta, c)) <= 1
        /\ hist[c].okEver <=> MetaIdx(meta, c) # {}
        /\ hist[c].okEver => find_one(meta, c)[1].last_modified = hist[c].okLm

\* C5 witness: a name published successfully, then again with another
\* last_modified and that publication failed.
C5_Witness ==
    \E c \in KpiStems :
        /\ hist[c].state = "failed"
        /\ hist[c].okEver
        /\ hist[c].lastLm # hist[c].okLm
        /\ Len(meta) >= 1

----------------------------------------------------------------------------
(* flows/gold_aggregation.py: the flow *)

ClientsCsv == <<"clients", "csv">>
AchatsCsv == <<"achats", "csv">>

\* What the check would be with `and` between its two tests.
RequiredMissingAnd(names) == ClientsCsv \notin names /\ AchatsCsv \notin names

\* if "clients.csv" not in names or "achats.csv" not in names
RequiredMissing(names) == ClientsCsv \notin names \/ AchatsCsv \notin names

\* The flow function raised: Prefect runs it again while the flow has
\* retries left, and then the run ends failed and the caller gets the error.
AggRaise(outcome) ==
    /\ IF aAttempt <= FlowRetries
       THEN aPc' = "retry" /\ aAttempt' = aAttempt + 1 /\ aOutcome' = aOutcome
       ELSE aPc' = "idle" /\ aAttempt' = aAttempt /\ aOutcome' = outcome
    /\ UNCHANGED <<aRun, aComplete>>

\* A storage call of the flow raised: the storage failed, or the object
\* asked for is not there.  No retry wraps the calls of read_csv_from_bucket
\* and upload_df_to_bucket: each was made once.
AggStorageError(absent) ==
    /\ \/ absent /\ faults' = faults
       \/ faults < MaxFaults /\ faults' = faults + 1
    /\ ioLog' = [stage |-> "aggregation", tries |-> 1, fatal |-> TRUE]
    /\ AggRaise("failed_storage")

\* gold_aggregation_flow() is called (or run again by Prefect):
\* client.bucket_exists(BUCKET_GOLD)
gold_aggregation_flow ==
    /\ \/ aPc = "idle" /\ clock < MaxRun /\ clock' = clock + 1 /\ aRun' = clock + 1
          /\ aAttempt' = 1
       \/ aPc = "retry" /\ UNCHANGED <<clock, aRun, aAttempt>>
    /\ aIdx' = 0
    /\ aOutcome' = "running"
    /\ aPc' = IF goldBucket THEN "list_silver" ELSE "make_bucket"
    /\ UNCHANGED <<runVars, req, silver, goldBucket, gold, aComplete, flowVars, mongoVars, obs,
                   faults, hist, ioLog, kpiVars,
                   cleanVars, silverVars>>

\* client.make_bucket(BUCKET_GOLD)
AggMakeBucket ==
    /\ aPc = "make_bucket"
    /\ goldBucket' = TRUE
    /\ aPc' = "list_silver"
    /\ UNCHANGED <<runVars, req, silver, gold, clock, aIdx, aAttempt, aRun, aOutcome, aComplete,
                   flowVars, mongoVars, obs, faults, hist, ioLog, kpiVars,
                   cleanVars, silverVars>>

\* objs = list(client.list_objects(BUCKET_SILVER, recursive=True)) and the
\* check of the names, which raises RuntimeError
AggListSilver ==
    /\ aPc = "list_silver"
    /\ IF RequiredMissing(silver)
       THEN AggRaise("failed_missing")
       ELSE aPc' = "read_clients" /\ UNCHANGED <<aAttempt, aRun, aOutcome, aComplete>>
    /\ UNCHANGED <<runVars, req, silver, goldBucket, gold, clock, aIdx, flowVars, mongoVars, obs,
                   faults, hist, ioLog, kpiVars,
                   cleanVars, silverVars>>

\* clients = read_csv_from_bucket(client, BUCKET_SILVER, "clients.csv")
AggReadClients ==
    /\ aPc = "read_clients"
    /\ \/ /\ ClientsCsv \in silver
          /\ aPc' = "read_achats"
          /\ UNCHANGED <<aAttempt, aRun, aOutcome, aComplete, faults, ioLog>>
       \/ AggStorageError(ClientsCsv \notin silver)
    /\ UNCHANGED <<runVars, req, silver, goldBucket, gold, clock, aIdx, flowVars, mongoVars, obs,
                   hist, kpiVars,
                   cleanVars, silverVars>>

\* achats = read_csv_from_bucket(...); kpis = compute_kpis(clients, achats)
AggReadAchats ==
    /\ aPc = "read_achats"
    /\ \/ /\ AchatsCsv \in silver
          /\ aPc' = "upload"
          /\ UNCHANGED <<aAttempt, aRun, aOutcome, aComplete, faults, ioLog>>
       \/ AggStorageError(AchatsCsv \notin silver)
    /\ UNCHANGED <<runVars, req, silver, goldBucket, gold, clock, aIdx, flowVars, mongoVars, obs,
                   hist, kpiVars,
                   cleanVars, silverVars>>

\* upload_df_to_bucket(client, kpis[...], BUCKET_GOLD, ...), one of the four
AggUpload ==
    /\ aPc = "upload"
    /\ \/ /\ gold' = put_object(gold, ObjName(KpiOrder[aIdx + 1]), aRun)
          /\ aIdx' = aIdx + 1
          /\ IF aIdx + 1 = Len(KpiOrder)
             THEN aPc' = "idle" /\ aOutcome' = "completed"
                  /\ aComplete' = aComplete \cup {aRun}
             ELSE UNCHANGED <<aPc, aOutcome, aComplete>>
          /\ UNCHANGED <<aAttempt, aRun, faults, ioLog>>
       \/ AggStorageError(FALSE) /\ UNCHANGED <<gold, aIdx>>
    /\ UNCHANGED <<runVars, req, silver, goldBucket, clock, flowVars, mongoVars, obs, hist, kpiVars,
                   cleanVars, silverVars>>

\* client.put_object(bucket_to, object_name, ...) of the cleaning stage:
\* a cleaned object arrives in the silver bucket.
SilverPut(n) ==
    /\ n \notin silver
    /\ silver' = silver \cup {n}
    /\ UNCHANGED <<runVars, req, goldBucket, gold, clock, aggVars, flowVars, mongoVars, obs, faults,
                   hist, ioLog, kpiVars,
                   cleanVars, silverVars>>

\* An object of the silver bucket is removed (bucket management, outside the
\* pipeline).
SilverRemove(n) ==
    /\ n \in silver
    /\ silver' = silver \ {n}
    /\ UNCHANGED <<runVars, req, goldBucket, gold, clock, aggVars, flowVars, mongoVars, obs, faults,
                   hist, ioLog, kpiVars,
                   cleanVars, silverVars>>

(* The aggregation alone, the silver bucket changing meanwhile. *)

InitEmptyBuckets ==
    /\ silver = {}
    /\ goldBucket \in BOOLEAN
    /\ gold = [n \in GoldNames |-> 0]
    /\ clock = 0
    /\ InitAgg /\ InitFlow /\ InitMongo /\ InitHist /\ InitKpi
    /\ InitClean /\ InitSilver /\ InitRun

InitAggSpec == InitEmptyBuckets /\ faults = 0

AggSteps ==
    \/ gold_aggregation_flow
    \/ AggMakeBucket
    \/ AggListSilver
    \/ AggReadClients
    \/ AggReadAchats
    \/ AggUpload
    \/ \E n \in {ClientsCsv, AchatsCsv} : SilverPut(n)

NextAgg ==
    \/ AggSteps
    \/ \E n \in {ClientsCsv, AchatsCsv} : SilverRemove(n)

SpecAgg == InitAggSpec /\ [][NextAgg]_vars

(* The pipeline: aggregation and publication side by side, as two flows    *)
(* that nothing in the repository orders.                                  *)

NextPipeline ==
    \/ AggSteps
    \/ gold_to_mongo_flow
    \/ ReadObject
    \/ WriteDelete
    \/ WriteInsert
    \/ WriteMeta

\* Both buckets empty, no storage failure yet.
InitPipeline == InitEmptyBuckets /\ faults = 0

SpecPipeline == InitPipeline /\ [][NextPipeline]_vars

----------------------------------------------------------------------------
(* Claims about the stages and their order *)

\* C6: a storage read or write of a core stage that fails is attempted again
\* exactly once, and when the stage gives up on it the error is fatal: so
\* every operation a stage gave up on was tried twice and ended the stage.
C6_RetryOnceThenFatal ==
    ioLog.stage # "none" => (ioLog.tries = 2 /\ ioLog.fatal)

\* The runs whose tables the store holds: the documents of a KPI table and
\* the last_modified of its metadata record carry the run that wrote the
\* gold object they were read from.
RunsInStore ==
    UNION {{store[c][i] : i \in 1..Len(store[c])} : c \in KpiStems}
        \cup {meta[i].last_modified : i \in 1..Len(meta)}

\* C7: the store never holds a KPI table of a run whose aggregation did not
\* upload all four KPI tables.
C7_PublishedRunsAreComplete == RunsInStore \subseteq aComplete

\* C8: when clients.csv or achats.csv is absent from the silver bucket as
\* gold_aggregation_flow lists it, the flow ends failed on its check, in its first and only run,
\* without an upload and with the gold objects as they were.
C8_MissingInputFails ==
    [][(AggListSilver /\ (ClientsCsv \notin silver \/ AchatsCsv \notin silver))
          => /\ aPc' = "idle"
             /\ aOutcome' = "failed_missing"
             /\ aAttempt' = 1
             /\ aIdx' = 0
             /\ gold' = gold
      ]_vars

\* C8 witness: the flow has failed on its check with one of the two inputs
\* present, over a gold bucket that holds the tables of an earlier run.
C8_Witness ==
    /\ aPc = "idle"
    /\ aOutcome = "failed_missing"
    /\ Cardinality(silver) = 1
    /\ \A n \in GoldNames : gold[n] # 0


----------------------------------------------------------------------------
(* flows/gold_aggregation.py: compute_kpis                                 *)
(*                                                                         *)
(* A cell is <<>> when absent (NaN / NaT) and <<v>> when present, except a *)
(* date, which is the pair <<year-month, day>>.  Amounts are integers.     *)

NaN == <<>>
NaT == <<>>

\* A date cell whose text is no date.
Garbage == <<0, 0>>

\* 1970-01-01: its year-month comes before those of Dates.
EpochDay == <<-1, 1>>

Dates == {<<1, 1>>, <<1, 2>>, <<2, 1>>}
Ids == {<<1>>, <<2>>}
Pays == {<<1>>, <<2>>}
Montants == {<<1>>, <<2>>}

ClientRows == [id_client : Ids, pays : Pays \cup {NaN}]
AchatRows == [id_client : Ids \cup {NaN}, date_achat : Dates \cup {NaT, Garbage},
              montant : Montants \cup {NaN}]

SeqsUpTo(S, n) == UNION {[1..k -> S] : k \in 0..n}

\* pd.to_datetime(x, errors="coerce")
to_datetime(x) == IF Len(x) = 2 /\ x[2] >= 1 THEN x ELSE NaT

\* .dt.to_period("M").astype(str): "YYYY-MM", and the text "NaT" for NaT.
\* Month texts are numbered by year-month; 0 stands for the text "NaT".
month_str(d) == IF d = NaT THEN 0 ELSE d[1]

\* The order of month texts: "NaT" comes after every "YYYY-MM".
MonthRank(m) == IF m = 0 THEN 1000000 ELSE m

DayRank(d) == d[1] * 100 + d[2]

PaysRank(p) == p[1]

\* The elements of the finite set S in ascending rank (rank[x] an integer).
Sorted(S, rank) ==
    [i \in 1..Cardinality(S) |->
        CHOOSE x \in S : Cardinality({y \in S : rank[y] < rank[x]}) = i - 1]

RECURSIVE SumIdxAbsentAsOne(_, _)
\* A faulty variant of SumIdx: an absent amount counts for 1.
SumIdxAbsentAsOne(f, I) ==
    IF I = {} THEN 0
    ELSE LET i == CHOOSE i \in I : TRUE
         IN  (IF f[i] = NaN THEN 1 ELSE f[i][1]) + SumIdxAbsentAsOne(f, I \ {i})

RECURSIVE SumIdx(_, _)
\* Series.sum() over the rows I of column f: absent cells are skipped.
SumIdx(f, I) ==
    IF I = {} THEN 0
    ELSE LET i == CHOOSE i \in I : TRUE
         IN  (IF f[i] = NaN THEN 0 ELSE f[i][1]) + SumIdx(f, I \ {i})

\* The statements of compute_kpis that add columns to achats (in place).
with_periods(a) ==
    [i \in 1..Len(a) |->
        LET d == to_datetime(a[i].date_achat)
        IN  [id_client |-> a[i].id_client, date_achat |-> d, montant |-> a[i].montant,
             day |-> d, month |-> month_str(d)]]

\* groupby(key).size().reset_index(name="volume") on the key column col:
\* a group per key in keys, in ascending order
group_size(col, keys, rank) ==
    LET ks == Sorted(keys, rank)
    IN  [k \in 1..Len(ks) |->
            [key |-> ks[k],
             volume |-> Cardinality({i \in 1..Len(col) : col[i] = ks[k]})]]

RECURSIVE merge_left(_, _)
\* achats.merge(clients, left_on="id_client", right_on="id_client", how="left")
merge_left(a, c) ==
    IF a = <<>> THEN <<>>
    ELSE LET r == Head(a)
             m == SelectSeq(c, LAMBDA x : x.id_client = r.id_client)
             out == IF m = <<>>
                    THEN <<[month |-> r.month, montant |-> r.montant, pays |-> NaN]>>
                    ELSE [k \in 1..Len(m) |->
                            [month |-> r.month, montant |-> r.montant,
                             pays |-> m[k].pays]]
         IN  out \o merge_left(Tail(a), c)

\* joined.groupby("pays")["montant"].sum(): groupby drops the absent key
ca_by_country(joined) ==
    LET keys == {joined[i].pays : i \in 1..Len(joined)} \ {NaN}
        ks == Sorted(keys, [p \in keys |-> PaysRank(p)])
        col == [i \in 1..Len(joined) |-> joined[i].montant]
    IN  [k \in 1..Len(ks) |->
            [pays |-> ks[k],
             ca |-> SumIdx(col, {i \in 1..Len(joined) : joined[i].pays = ks[k]})]]

\* joined.groupby("month")["montant"].sum(), sorted by month
rev_month(joined) ==
    LET keys == {joined[i].month : i \in 1..Len(joined)}
        ks == Sorted(keys, [m \in keys |-> MonthRank(m)])
        col == [i \in 1..Len(joined) |-> joined[i].montant]
    IN  [k \in 1..Len(ks) |->
            [month |-> ks[k],
             revenue |-> SumIdx(col, {i \in 1..Len(joined) : joined[i].month = ks[k]})]]

\* Series.pct_change().fillna(0) at row k, as the fraction num/den:
\* curr / prev - 1; absent for the first row and for 0/0, which fillna sets
\* to 0; den = 0 stands for an infinite value.
pct_change(rev, k) ==
    IF k = 1 THEN [num |-> 0, den |-> 1]
    ELSE LET prev == rev[k - 1].revenue
             curr == rev[k].revenue
         IN  IF prev = 0
             THEN (IF curr = 0 THEN [num |-> 0, den |-> 1] ELSE [num |-> curr, den |-> 0])
             ELSE [num |-> curr - prev, den |-> prev]

compute_kpis(c, a) ==
    LET rows == with_periods(a)
        joined == merge_left(rows, c)
        rev == rev_month(joined)
        days == {rows[i].day : i \in 1..Len(rows)} \ {NaT}
        months == {rows[i].month : i \in 1..Len(rows)}
    IN  [volumes_day |->
            group_size([i \in 1..Len(rows) |-> rows[i].day], days,
                       [d \in days |-> DayRank(d)]),
         volumes_month |->
            group_size([i \in 1..Len(rows) |-> rows[i].month], months,
                       [m \in months |-> MonthRank(m)]),
         ca_by_country |-> ca_by_country(joined),
         monthly_revenue |->
            [k \in 1..Len(rev) |->
                [month |-> rev[k].month, revenue |-> rev[k].revenue,
                 pct_change |-> pct_change(rev, k)]]]

\* kpis = compute_kpis(clients, achats)
ComputeKpis ==
    /\ kPc = "idle"
    /\ kpis' = compute_kpis(clients, achats)
    /\ achats' = with_periods(achats)
    /\ kPc' = "done"
    /\ UNCHANGED <<runVars, req, silver, goldBucket, gold, clock, aggVars, flowVars, mongoVars, obs,
                   faults, hist, ioLog, clients, cleanVars, silverVars>>

NoKpis == [volumes_day |-> <<>>, volumes_month |-> <<>>, ca_by_country |-> <<>>,
           monthly_revenue |-> <<>>]

(* compute_kpis on every pair of small tables. *)

InitKpiSpec ==
    /\ InitBuckets /\ InitAgg /\ InitFlow /\ InitMongo /\ InitHist
    /\ InitClean /\ InitSilver /\ InitRun
    /\ faults = 0
    /\ clients \in SeqsUpTo(ClientRows, MaxClients)
    /\ achats \in SeqsUpTo(AchatRows, MaxAchats)
    /\ kpis = NoKpis
    /\ kPc = "idle"

NextKpi == ComputeKpis

SpecKpi == InitKpiSpec /\ [][NextKpi]_vars

----------------------------------------------------------------------------
(* Claims about compute_kpis *)

\* The purchases (rows of achats) with an amount whose id_client is present
\* and is that of no clients row.
Unmatched == {i \in 1..Len(achats) :
                 /\ achats[i].id_client # NaN
                 /\ achats[i].montant # NaN
                 /\ \A j \in 1..Len(clients) :
                        clients[j].id_client # achats[i].id_client}

\* C9: the amount of every purchase whose id_client matches no client is in
\* ca_by_country, under the absent-country bucket: when there is such a
\* purchase, ca_by_country has a row for the absent country and its ca is at
\* least the sum of the present amounts of those purchases.
C9_LeftJoinKeepsUnmatched ==
    (kPc = "done" /\ Unmatched # {}) =>
        \E k \in 1..Len(kpis.ca_by_country) :
            /\ kpis.ca_by_country[k].pays = NaN
            /\ kpis.ca_by_country[k].ca >=
                   SumIdx([i \in 1..Len(achats) |-> achats[i].montant], Unmatched)

\* C10: monthly_revenue is in ascending period order, the pct_change of its
\* first row is 0, and the pct_change of every later row is
\* (revenue - previous revenue) / previous revenue * 100.  Stated for the
\* tables in which every purchase has a date.
C10_PctChangeIsPercent ==
    (kPc = "done" /\ \A i \in 1..Len(achats) : achats[i].date_achat # NaT) =>
        LET mr == kpis.monthly_revenue IN
        /\ \A k \in 2..Len(mr) : MonthRank(mr[k - 1].month) < MonthRank(mr[k].month)
        /\ Len(mr) >= 1 => (mr[1].pct_change.num = 0 /\ mr[1].pct_change.den # 0)
        /\ \A k \in 2..Len(mr) :
              mr[k - 1].revenue # 0 =>
                 /\ mr[k].pct_change.den # 0
                 /\ mr[k].pct_change.num * mr[k - 1].revenue =
                       (mr[k].revenue - mr[k - 1].revenue) * 100 * mr[k].pct_change.den

\* The purchases that have both a date and an id_client (after compute_kpis
\* has coerced date_achat in place, an unparsable date is NaT).
WithDateAndClient ==
    SelectSeq(achats, LAMBDA r : r.date_achat # NaT /\ r.id_client # NaN)

\* C11: a purchase whose date_achat is absent or unparsable, or whose
\* id_client is absent, is excluded from the four KPI tables: the tables
\* returned are those of the purchases that have both, with no other count,
\* amount, group or period.
C11_InvalidRowsExcluded ==
    kPc = "done" => kpis = compute_kpis(clients, WithDateAndClient)

----------------------------------------------------------------------------
(* flows/silver_transformation.py: transform_dataframe                     *)
(*                                                                         *)
(* A text is a sequence of characters; a well-formed date text is one      *)
(* character ("D11" is the text of the date <<1, 1>>).  A cell of a        *)
(* DataFrame is NA (NaN), NaTCell, <<"str", text>>, <<"num", n>> or        *)
(* <<"date", d>>.  A DataFrame is [columns, rows], a row being the         *)
(* sequence of its cells in column order; a column name is [name, pad],    *)
(* pad telling whether the header text has surrounding whitespace.  The    *)
(* names are lowercase, so str.lower() leaves them as they are.            *)

NA == <<"na">>
NaTCell == <<"nat">>
Space == " "
Digits == {"1", "2"}
DigitVal == [c \in Digits |-> IF c = "1" THEN 1 ELSE 2]
DateTexts == {"D11", "D12", "D21"}
DateVal == [c \in DateTexts |->
               IF c = "D11" THEN <<1, 1>> ELSE IF c = "D12" THEN <<1, 2>> ELSE <<2, 1>>]

\* The texts pandas.read_csv reads as NaN: the empty field, "N/A", ...
NaTexts == {<<>>, <<"N", "/", "A">>}

RECURSIVE lstrip(_)
lstrip(t) == IF t # <<>> /\ Head(t) = Space THEN lstrip(Tail(t)) ELSE t

RECURSIVE rstrip(_)
rstrip(t) ==
    IF t # <<>> /\ t[Len(t)] = Space THEN rstrip(SubSeq(t, 1, Len(t) - 1)) ELSE t

\* str.strip()
strip(t) == rstrip(lstrip(t))

\* str.lower()
lower(t) ==
    [i \in 1..Len(t) |->
        IF t[i] = "A" THEN "a" ELSE IF t[i] = "N" THEN "n" ELSE t[i]]

IsNumericText(t) == t # <<>> /\ \A i \in 1..Len(t) : t[i] \in Digits

RECURSIVE NumericValue(_)
NumericValue(t) ==
    IF Len(t) = 1 THEN DigitVal[t[1]]
    ELSE 10 * NumericValue(SubSeq(t, 1, Len(t) - 1)) + DigitVal[t[Len(t)]]

\* dtype object: the column holds text
IsObject(df, j) == \E i \in 1..Len(df.rows) : df.rows[i][j][1] = "str"

\* pd.read_csv(BytesIO(data)) on the fields of a CSV: a column whose fields
\* are all numbers or NaN texts is numeric, any other is of dtype object.
read_csv(csv) ==
    LET numeric(j) == \A i \in 1..Len(csv.rows) :
                          csv.rows[i][j] \in NaTexts \/ IsNumericText(csv.rows[i][j])
        cell(t, j) == IF t \in NaTexts THEN NA
                      ELSE IF numeric(j) THEN <<"num", NumericValue(t)>>
                      ELSE <<"str", t>>
    IN  [columns |-> csv.columns,
         rows |-> [i \in 1..Len(csv.rows) |->
                      [j \in 1..Len(csv.columns) |-> cell(csv.rows[i][j], j)]]]

isna(c) == c = NA \/ c = NaTCell

\* df.dropna(how="all")
dropna_all(df) ==
    [df EXCEPT !.rows = SelectSeq(df.rows, LAMBDA r : \E j \in 1..Len(r) : ~isna(r[j]))]

\* df.columns = [c.strip() for c in df.columns]
strip_columns(df) ==
    [df EXCEPT !.columns = [j \in 1..Len(df.columns) |->
                               [name |-> df.columns[j].name, pad |-> FALSE]]]

\* "date" in col.lower(), for a column [name, pad]: surrounding whitespace
\* does not change what the name contains
IsDateName(col) == col.name \in {"date_achat", "date_inscription"}

\* col.lower() in ("montant", "id_achat", "id_client", "id_client"): equality
\* with the whole header text
IsNumericName(col) == ~col.pad /\ col.name \in {"montant", "id_achat", "id_client"}

\* any(keyword in col.lower() for keyword in ["email", "nom", "produit", "pays"])
IsTextName(col) == col.name \in {"email", "nom", "produit", "pays"}

\* "email" in col.lower()
IsEmailName(col) == col.name = "email"

\* pd.to_datetime(cell, errors="coerce"); a number n is nanoseconds since the
\* epoch: the day 1970-01-01 followed by n.
to_datetime_cell(c) ==
    IF c[1] = "date" THEN c
    ELSE IF c[1] = "num" THEN <<"date", EpochDay \o <<c[2]>>>>
    ELSE IF c[1] = "str" /\ Len(c[2]) = 1 /\ c[2][1] \in DateTexts
         THEN <<"date", DateVal[c[2][1]]>>
    ELSE NaTCell

\* pd.to_numeric(cell, errors="coerce")
to_numeric_cell(c) ==
    IF c[1] = "num" THEN c
    ELSE IF c[1] = "str" /\ IsNumericText(c[2]) THEN <<"num", NumericValue(c[2])>>
    ELSE NA

\* astype(str): NaN becomes the text "nan"
astype_str(c) ==
    IF c[1] = "str" THEN c[2]
    ELSE IF c[1] = "num" THEN <<IF c[2] = 1 THEN "1" ELSE "2">>
    ELSE <<"n", "a", "n">>

\* df[col].astype(str).str.strip()
strip_cell(c) == <<"str", strip(astype_str(c))>>

\* df[col].str.lower()
lower_cell(c) == IF c[1] = "str" THEN <<"str", lower(c[2])>> ELSE c

\* for col in df.columns: if "date" in col.lower(): df[col] = pd.to_datetime(...)
parse_dates(df) ==
    [df EXCEPT !.rows = [i \in 1..Len(df.rows) |->
        [j \in 1..Len(df.columns) |->
            IF IsDateName(df.columns[j]) THEN to_datetime_cell(df.rows[i][j])
            ELSE df.rows[i][j]]]]

\* for col in df.select_dtypes(include=["object"]).columns:
\*     if col.lower() in (...): df[col] = pd.to_numeric(df[col], errors="coerce")
normalize_numeric(df) ==
    [df EXCEPT !.rows = [i \in 1..Len(df.rows) |->
        [j \in 1..Len(df.columns) |->
            IF IsObject(df, j) /\ IsNumericName(df.columns[j])
            THEN to_numeric_cell(df.rows[i][j])
            ELSE df.rows[i][j]]]]

\* for col in df.select_dtypes(include=["object"]).columns:
\*     if any(keyword in col.lower() ...): strip, and lower for an email column
normalize_text(df) ==
    [df EXCEPT !.rows = [i \in 1..Len(df.rows) |->
        [j \in 1..Len(df.columns) |->
            IF IsObject(df, j) /\ IsTextName(df.columns[j])
            THEN (IF IsEmailName(df.columns[j])
                  THEN lower_cell(strip_cell(df.rows[i][j]))
                  ELSE strip_cell(df.rows[i][j]))
            ELSE df.rows[i][j]]]]

\* A faulty variant of drop_duplicates: every row is kept.
keep_duplicates(df) == df

\* df.drop_duplicates(): the first of equal rows is kept
drop_duplicates(df) ==
    LET keep == {i \in 1..Len(df.rows) : \A k \in 1..(i - 1) : df.rows[k] # df.rows[i]}
        idx == Sorted(keep, [i \in keep |-> i])
    IN  [df EXCEPT !.rows = [k \in 1..Len(idx) |-> df.rows[idx[k]]]]

\* name in df.columns
has_column(df, n) == \E j \in 1..Len(df.columns) : df.columns[j] = [name |-> n, pad |-> FALSE]

ColumnIndex(df, n) == CHOOSE j \in 1..Len(df.columns) : df.columns[j] = [name |-> n, pad |-> FALSE]

\* A faulty variant of filter_notna: a row with any absent field is removed.
filter_any_na(df, n) ==
    [df EXCEPT !.rows = SelectSeq(df.rows, LAMBDA r : \A j \in 1..Len(r) : ~isna(r[j]))]

\* A faulty variant of filter_notna: no row is removed.
filter_nothing(df, n) == df

\* if name in df.columns: df = df[df[name].notna()]
filter_notna(df, n) ==
    IF has_column(df, n)
    THEN [df EXCEPT !.rows = SelectSeq(df.rows, LAMBDA r : ~isna(r[ColumnIndex(df, n)]))]
    ELSE df

(* The objects of a call.  A Python variable holds a reference to a       *)
(* DataFrame: `heap` is the sequence of the DataFrames alive, a reference  *)
(* is an index in it, and a step of the function gives the heap and what   *)
(* the local variable df refers to afterwards.                             *)

\* A faulty variant of dropna: the rows are dropped in the DataFrame given
\* (inplace=True), and df goes on referring to it.
dropna_inplace(heap, df) ==
    [heap |-> [heap EXCEPT ![df] = dropna_all(@)], df |-> df]

\* df = df.dropna(how="all"): dropna returns a new DataFrame, df is rebound
dropna(heap, df) ==
    [heap |-> Append(heap, dropna_all(heap[df])), df |-> Len(heap) + 1]

\* The one element of a set of one element.
Only(S) == CHOOSE x \in S : TRUE

\* df.columns = ... and df[col] = ...: the DataFrame df refers to is changed
setitem(s, value) == [heap |-> [s.heap EXCEPT ![s.df] = value], df |-> s.df]

\* df = df.drop_duplicates() and df = df[mask]: a new DataFrame, df is rebound
rebind(s, value) == [heap |-> Append(s.heap, value), df |-> Len(s.heap) + 1]

\* df.columns = [c.strip() for c in df.columns]
StripColumns(s) == Only({setitem(x, strip_columns(x.heap[x.df])) : x \in {s}})

\* df[col] = pd.to_datetime(df[col], errors="coerce"), for the date columns
ParseDates(s) == Only({setitem(x, parse_dates(x.heap[x.df])) : x \in {s}})

\* df[col] = pd.to_numeric(df[col], errors="coerce"), for the numeric columns
NormalizeNumeric(s) == Only({setitem(x, normalize_numeric(x.heap[x.df])) : x \in {s}})

\* df[col] = df[col].astype(str).str.strip(), for the text columns
NormalizeText(s) == Only({setitem(x, normalize_text(x.heap[x.df])) : x \in {s}})

\* df = df.drop_duplicates()
DropDuplicates(s) == Only({rebind(x, drop_duplicates(x.heap[x.df])) : x \in {s}})

\* if name in df.columns: df = df[df[name].notna()]
FilterNotna(s, n) ==
    Only({IF has_column(x.heap[x.df], n)
          THEN rebind(x, filter_notna(x.heap[x.df], n)) ELSE x : x \in {s}})

\* The body of transform_dataframe, called with the reference df: the heap
\* after the call and the reference returned
transform_dataframe_call(heap, df) ==
    FilterNotna(
      FilterNotna(
        DropDuplicates(NormalizeText(NormalizeNumeric(ParseDates(StripColumns(
          dropna(heap, df)))))),
        "id_client"),
      "id_achat")

\* The DataFrame transform_dataframe returns when given a DataFrame holding df
transform_dataframe(df) ==
    Only({out.heap[out.df] : out \in {transform_dataframe_call(<<df>>, 1)}})

\* cleaned = transform_dataframe(raw): the caller's variable raw refers to
\* the first DataFrame of the heap, before and after the call
TransformDataframe ==
    /\ kPc = "idle"
    /\ cRuns < MaxCleanRuns
    /\ \E out \in {transform_dataframe_call(<<raw>>, 1)} :
          /\ cleaned' = out.heap[out.df]
          /\ raw' = out.heap[1]
    /\ cRuns' = cRuns + 1
    /\ UNCHANGED <<runVars, req, silver, goldBucket, gold, clock, aggVars, flowVars, mongoVars, obs,
                   faults, hist, ioLog, kpiVars, silverVars>>

\* df_clean.to_csv(out, index=False) in process_object, then
\* read_csv_from_bucket in gold_aggregation_flow: a cell as compute_kpis gets it
\* compute_kpis uses the day of a date only (.dt.date, .dt.to_period("M")).
\* A text is read back as it was written, unless it is one read_csv takes
\* for NaN; after transform_dataframe the columns achats_of reads hold none.
csv_round_trip(c) ==
    IF c[1] = "num" THEN <<c[2]>>
    ELSE IF c[1] = "date" THEN <<c[2][1], c[2][2]>>
    ELSE IF c[1] = "str"
         THEN (IF c[2] \in NaTexts \cup {<<"n", "a", "n">>} THEN NaN ELSE <<c[2]>>)
    ELSE NaN

\* The achats table gold_aggregation_flow reads from the cleaned object.
achats_of(df) ==
    [i \in 1..Len(df.rows) |->
        [id_client |-> csv_round_trip(df.rows[i][ColumnIndex(df, "id_client")]),
         date_achat |-> csv_round_trip(df.rows[i][ColumnIndex(df, "date_achat")]),
         montant |-> csv_round_trip(df.rows[i][ColumnIndex(df, "montant")])]]

\* compute_kpis(clients, achats) on the cleaned purchases
AggregateCleaned ==
    /\ kPc = "idle"
    /\ cRuns >= 1
    /\ has_column(cleaned, "id_client")
    /\ has_column(cleaned, "date_achat")
    /\ has_column(cleaned, "montant")
    /\ kpis' = compute_kpis(clients, achats_of(cleaned))
    /\ achats' = with_periods(achats_of(cleaned))
    /\ kPc' = "done"
    /\ UNCHANGED <<runVars, req, silver, goldBucket, gold, clock, aggVars, flowVars, mongoVars, obs,
                   faults, hist, ioLog, clients, cleanVars, silverVars>>

(* transform_dataframe on every small raw extract. *)

Schemas == {<<"id_client", "nom", "email">>,
            <<"id_client", "pays", "date_inscription">>,
            <<"id_achat", "id_client", "date_achat", "montant">>,
            <<"id_achat", "id_client", "produit">>}

\* The fields a raw extract may hold in the column named n.
FieldTexts(n) ==
    IF n = "id_client" THEN {<<"1">>, <<"x">>, <<>>}
    ELSE IF n = "id_achat" THEN {<<"1">>, <<"x">>}
    ELSE IF n = "date_achat" THEN {<<"D11">>, <<"x">>}
    ELSE IF n = "date_inscription" THEN {<<"D11">>, <<"x">>, <<>>}
    ELSE IF n = "montant" THEN {<<"1">>, <<"x">>, <<"N", "/", "A">>}
    ELSE IF n = "email" THEN {<<"a">>, <<Space, "A", Space>>, <<>>}
    ELSE {<<"A">>, <<Space, "A", Space>>, <<>>}

AllTexts == UNION {FieldTexts(n) : n \in {"id_client", "id_achat", "date_inscription",
                                           "montant", "email", "nom"}}

CsvRows(schema) ==
    {r \in [1..Len(schema) -> AllTexts] :
        \A j \in 1..Len(schema) : r[j] \in FieldTexts(schema[j])}

CsvTables ==
    UNION {[columns : {[j \in 1..Len(schema) |-> [name |-> schema[j], pad |-> pad]]},
            rows : SeqsUpTo(CsvRows(schema), MaxRawRows)] :
                <<schema, pad>> \in Schemas \X BOOLEAN}

InitCleanSpec ==
    /\ InitBuckets /\ InitAgg /\ InitFlow /\ InitMongo /\ InitHist /\ InitSilver /\ InitRun
    /\ faults = 0
    /\ raw \in {read_csv(csv) : csv \in CsvTables}
    /\ cleaned = NoDf
    /\ cRuns = 0
    /\ clients = <<[id_client |-> <<1>>, pays |-> <<1>>]>>
    /\ achats = <<>>
    /\ kpis = NoKpis
    /\ kPc = "idle"

NextClean ==
    \/ TransformDataframe
    \/ AggregateCleaned

SpecClean == InitCleanSpec /\ [][NextClean]_vars

----------------------------------------------------------------------------
(* Claims about transform_dataframe *)

IdNames == {"id_client", "id_achat"}

\* A raw cell that holds a number, as a number or as the text of one.
RawNumeric(c) == c[1] = "num" \/ (c[1] = "str" /\ IsNumericText(c[2]))

\* Row i of df has a number in each of its identifier columns.
ValidIds(df, i) ==
    \A j \in 1..Len(df.columns) :
        df.columns[j].name \in IdNames => RawNumeric(df.rows[i][j])

\* C13: the table transform_dataframe returns has no two rows that are equal
\* in every field.
C13_NoDuplicateRows ==
    cRuns >= 1 =>
        \A i, k \in 1..Len(cleaned.rows) : i # k => cleaned.rows[i] # cleaned.rows[k]

\* Two raw rows with their identifiers that differ as read were made equal by
\* the normalizations, and one of them was returned.
C13_Witness ==
    /\ cRuns >= 1
    /\ Len(raw.rows) = 2
    /\ raw.rows[1] # raw.rows[2]
    /\ ValidIds(raw, 1) /\ ValidIds(raw, 2)
    /\ Len(cleaned.rows) = 1

\* C14: no row of a cleaned table has an absent id_achat or id_client,
\* whether or not the raw header has whitespace around the column name.
C14_IdentifiersPresent ==
    cRuns >= 1 =>
        \A j \in 1..Len(cleaned.columns) :
            cleaned.columns[j].name \in IdNames =>
                \A i \in 1..Len(cleaned.rows) : cleaned.rows[i][j][1] = "num"

\* The header was padded, a row had a non-numeric id_client and was removed,
\* another row was kept.
C14_Witness ==
    /\ cRuns >= 1
    /\ \E j \in 1..Len(raw.columns) :
          /\ raw.columns[j] = [name |-> "id_client", pad |-> TRUE]
          /\ \E i \in 1..Len(raw.rows) : raw.rows[i][j][1] = "str" /\ ~RawNumeric(raw.rows[i][j])
    /\ Len(cleaned.rows) = 1
    /\ Len(raw.rows) = 2

\* C15: a call of transform_dataframe leaves the table it was given as it
\* was, and a second call on the same raw extract returns the same table as
\* the first.
C15_SameResultInputUntouched ==
    [][cRuns' = cRuns + 1 => (raw' = raw /\ (cRuns >= 1 => cleaned' = cleaned))]_vars

\* Two calls were made on an extract that the cleaning changes.
C15_Witness ==
    /\ cRuns = 2
    /\ Len(raw.rows) = 2
    /\ cleaned # raw
    /\ Len(cleaned.rows) = 1
    /\ \E j \in 1..Len(raw.columns) : raw.columns[j].pad

\* C16: every present email, nom, produit or pays value of a cleaned table
\* is a text without leading or trailing whitespace that is the raw value of
\* some raw row, stripped (and lowercased for an email).
C16_TextTrimmed ==
    cRuns >= 1 =>
        \A j \in 1..Len(cleaned.columns) :
            IsTextName(cleaned.columns[j]) =>
                \A i \in 1..Len(cleaned.rows) :
                    LET c == cleaned.rows[i][j] IN
                    ~isna(c) =>
                        /\ c[1] = "str"
                        /\ strip(c[2]) = c[2]
                        /\ IsEmailName(cleaned.columns[j]) => lower(c[2]) = c[2]
                        /\ \E k \in 1..Len(raw.rows) :
                              /\ raw.rows[k][j][1] = "str"
                              /\ c[2] = IF IsEmailName(cleaned.columns[j])
                                        THEN lower(strip(raw.rows[k][j][2]))
                                        ELSE strip(raw.rows[k][j][2])

\* Row i of the raw table as the normalizations leave it: dates parsed,
\* numbers coerced, texts stripped (an absent text stays absent), e-mails
\* lowercased.
Normalized(df, i) ==
    [j \in 1..Len(df.columns) |->
        LET c == df.rows[i][j]
            col == df.columns[j]
        IN  IF IsDateName(col) THEN to_datetime_cell(c)
            ELSE IF col.name \in {"montant", "id_achat", "id_client"} THEN to_numeric_cell(c)
            ELSE IF IsTextName(col) /\ c[1] = "str"
                 THEN (IF IsEmailName(col) THEN <<"str", lower(strip(c[2]))>>
                       ELSE <<"str", strip(c[2])>>)
            ELSE c]

\* The columns other than the free-text ones.
TypedColumns(df) == {j \in 1..Len(df.columns) : ~IsTextName(df.columns[j])}

\* The raw rows that have their identifiers.
RowsWithIds == {i \in 1..Len(raw.rows) : ValidIds(raw, i)}

\* A raw row with its identifiers is returned with its dates and numbers
\* coerced: the malformed ones are absent, the row is there.
Retained ==
    \A i \in RowsWithIds :
        \E k \in 1..Len(cleaned.rows) :
            \A j \in TypedColumns(raw) : cleaned.rows[k][j] = Normalized(raw, i)[j]

\* C17 as stated: a raw row is removed only if it is entirely empty, equal in
\* every field to another raw row, or without a required identifier; so as
\* many rows are returned as there are distinct raw rows with their
\* identifiers, each with its malformed date or amount absent.
C17_OnlyExactDuplicatesRemoved ==
    cRuns >= 1 =>
        /\ Retained
        /\ Len(cleaned.rows) = Cardinality({raw.rows[i] : i \in RowsWithIds})

\* C17 (amended): a raw row is removed only if it is entirely empty, without
\* a required identifier, or equal to another row once both are normalized;
\* so as many rows are returned as there are distinct normalized rows with
\* their identifiers, each with its malformed date or amount absent.
C17_OnlyNormalizedDuplicatesRemoved ==
    cRuns >= 1 =>
        /\ Retained
        /\ Len(cleaned.rows) = Cardinality({Normalized(raw, i) : i \in RowsWithIds})

\* A purchase with a malformed date and a non-numeric amount was returned
\* with both absent, next to a row that was removed.
C17_Witness ==
    /\ cRuns >= 1
    /\ Len(raw.rows) = 2
    /\ Len(cleaned.rows) = 1
    /\ \E i \in RowsWithIds :
          /\ has_column(cleaned, "montant")
          /\ raw.rows[i][ColumnIndex(cleaned, "montant")][1] = "str"
          /\ raw.rows[i][ColumnIndex(cleaned, "date_achat")][1] = "str"
          /\ cleaned.rows[1][ColumnIndex(cleaned, "montant")] = NA
          /\ cleaned.rows[1][ColumnIndex(cleaned, "date_achat")] = NaTCell

\* The column of the raw table whose header, stripped, is "montant".
MontantColumn == {j \in 1..Len(raw.columns) : raw.columns[j].name = "montant"}

\* The purchases (rows of achats) of the set I that have an amount.
WithAmount(I) == {i \in I : achats[i].montant # NaN}

RECURSIVE AmountTotal(_)
\* The total of the amounts of the purchases of I, all with an amount.
AmountTotal(I) ==
    IF I = {} THEN 0
    ELSE LET i == CHOOSE i \in I : TRUE
         IN  achats[i].montant[1] + AmountTotal(I \ {i})

RECURSIVE CountryTotal(_, _)
\* The total, over the purchases of I, of the amount times the number of
\* clients of country p with the purchase's id_client.
CountryTotal(I, p) ==
    IF I = {} THEN 0
    ELSE LET i == CHOOSE i \in I : TRUE
             n == Cardinality({j \in 1..Len(clients) :
                                  /\ clients[j].id_client = achats[i].id_client
                                  /\ clients[j].pays = p})
         IN  achats[i].montant[1] * n + CountryTotal(I \ {i}, p)

\* C12: a purchase whose montant is not a number is returned by the cleaning
\* with its identifiers and an absent montant; in the aggregation every
\* purchase, with or without amount, counts in volumes_day and volumes_month,
\* and the sums of ca_by_country and monthly_revenue are those of the
\* purchases that have an amount.
C12_AbsentAmountCountedNotSummed ==
    /\ cRuns >= 1 =>
          \A i \in RowsWithIds : \A jm \in MontantColumn :
              ~RawNumeric(raw.rows[i][jm]) =>
                  \E k \in 1..Len(cleaned.rows) :
                      /\ cleaned.rows[k][jm] = NA
                      /\ \A j \in 1..Len(raw.columns) :
                            raw.columns[j].name \in IdNames =>
                                cleaned.rows[k][j] = to_numeric_cell(raw.rows[i][j])
    /\ kPc = "done" =>
          LET all == 1..Len(achats) IN
          /\ \A i \in all : achats[i].day # NaT =>
                \E k \in 1..Len(kpis.volumes_day) : kpis.volumes_day[k].key = achats[i].day
          /\ \A k \in 1..Len(kpis.volumes_day) :
                kpis.volumes_day[k].volume =
                    Cardinality({i \in all : achats[i].day = kpis.volumes_day[k].key})
          /\ \A i \in all :
                \E k \in 1..Len(kpis.volumes_month) :
                    kpis.volumes_month[k].key = achats[i].month
          /\ \A k \in 1..Len(kpis.volumes_month) :
                kpis.volumes_month[k].volume =
                    Cardinality({i \in all : achats[i].month = kpis.volumes_month[k].key})
          /\ \A k \in 1..Len(kpis.monthly_revenue) :
                kpis.monthly_revenue[k].revenue =
                    AmountTotal(WithAmount({i \in all :
                        achats[i].month = kpis.monthly_revenue[k].month}))
          /\ \A k \in 1..Len(kpis.ca_by_country) :
                kpis.ca_by_country[k].ca =
                    CountryTotal(WithAmount(all), kpis.ca_by_country[k].pays)

\* A purchase with a date and a non-numeric amount was cleaned and aggregated
\* together with a purchase of the same month that has an amount.
C12_Witness ==
    /\ kPc = "done"
    /\ Len(achats) = 2
    /\ \E i, k \in 1..2 :
          /\ achats[i].montant = NaN /\ achats[i].date_achat # NaT
          /\ achats[k].montant # NaN /\ achats[k].month = achats[i].month
          /\ achats[i].id_client = <<1>> /\ achats[k].id_client = <<1>>
    /\ \E i \in 1..Len(raw.rows) : \E jm \in MontantColumn :
          raw.rows[i][jm] = <<"str", <<"x">>>>

----------------------------------------------------------------------------
(* flows/silver_transformation.py: silver_transformation_flow              *)
(*                                                                         *)
(* bronze is the listing of the bronze bucket, in listing order: the name  *)
(* of each object and whether pd.read_csv accepts its bytes.               *)

BronzeNames == {ClientsCsv, AchatsCsv, <<"autres", "csv">>}

\* A faulty variant of rest_after_error: the error ends the loop.
rest_dropped(objs) == <<>>

\* except Exception as e: print(...) -- the loop goes on with the next object
rest_after_error(objs) == Tail(objs)

\* silver_transformation_flow(): bucket_exists / make_bucket, list_objects
silver_transformation_flow ==
    /\ sPc = "idle"
    /\ sPc' = "loop"
    /\ sObjs' = bronze
    /\ sLog' = <<>>
    /\ UNCHANGED <<runVars, req, silver, goldBucket, gold, clock, aggVars, flowVars, mongoVars, obs,
                   faults, hist, ioLog, kpiVars, cleanVars, bronze>>

\* One iteration of the loop: process_object(client, BUCKET_BRONZE, name,
\* BUCKET_SILVER) inside try / except.  get_object or put_object may raise a
\* storage error, pd.read_csv raises on bytes that are no CSV.
ProcessObject ==
    /\ sPc = "loop"
    /\ sObjs # <<>>
    /\ LET obj == Head(sObjs) IN
       \/ /\ obj.valid
          /\ silver' = silver \cup {obj.name}
          /\ sLog' = Append(sLog, [name |-> obj.name, outcome |-> "written", storage |-> FALSE])
          /\ sObjs' = Tail(sObjs)
          /\ UNCHANGED faults
       \/ /\ ~obj.valid
          /\ sLog' = Append(sLog, [name |-> obj.name, outcome |-> "failed", storage |-> FALSE])
          /\ sObjs' = rest_after_error(sObjs)
          /\ UNCHANGED <<silver, faults>>
       \/ /\ faults < MaxFaults
          /\ faults' = faults + 1
          /\ sLog' = Append(sLog, [name |-> obj.name, outcome |-> "failed", storage |-> TRUE])
          /\ sObjs' = rest_after_error(sObjs)
          /\ UNCHANGED silver
    /\ UNCHANGED <<runVars, req, goldBucket, gold, clock, aggVars, flowVars, mongoVars, obs,
                   hist, ioLog, kpiVars, cleanVars, bronze, sPc>>

\* The listing is exhausted: the flow returns.
SilverFlowReturn ==
    /\ sPc = "loop"
    /\ sObjs = <<>>
    /\ sPc' = "done"
    /\ UNCHANGED <<runVars, req, silver, goldBucket, gold, clock, aggVars, flowVars, mongoVars, obs,
                   faults, hist, ioLog, kpiVars, cleanVars, bronze, sObjs, sLog>>

\* The listings of at most MaxBronze objects, in any order, valid or not.
BronzeListings ==
    {b \in SeqsUpTo([name : BronzeNames, valid : BOOLEAN], MaxBronze) :
        \A i, k \in 1..Len(b) : i # k => b[i].name # b[k].name}

InitSilverSpec ==
    /\ InitBuckets /\ InitAgg /\ InitFlow /\ InitMongo /\ InitHist /\ InitKpi /\ InitClean
    /\ InitRun
    /\ faults = 0
    /\ bronze \in BronzeListings
    /\ sPc = "idle"
    /\ sObjs = <<>>
    /\ sLog = <<>>

NextSilver ==
    \/ silver_transformation_flow
    \/ ProcessObject
    \/ SilverFlowReturn

SpecSilver == InitSilverSpec /\ [][NextSilver]_vars

\* C18: when the cleaning of one raw object fails, on bytes that are no CSV
\* or on a storage error, nothing is written to the silver zone for it, and
\* every other object of the listing is still processed, whatever the order:
\* at the end of a run every listed object has been processed in turn, the
\* objects written are those whose processing did not fail, and every valid
\* object that met no storage error has been written.
C18_FailureIsPerObject ==
    sPc = "done" =>
        /\ Len(sLog) = Len(bronze)
        /\ \A k \in 1..Len(bronze) :
              /\ sLog[k].name = bronze[k].name
              /\ sLog[k].outcome = "written" <=> bronze[k].name \in silver
              /\ (bronze[k].valid /\ ~sLog[k].storage) => sLog[k].outcome = "written"
              /\ ~bronze[k].valid => sLog[k].outcome = "failed"

\* The first object of the listing failed and the second was written.
C18_Witness ==
    /\ sPc = "done"
    /\ Len(bronze) = 2
    /\ sLog[1].outcome = "failed"
    /\ sLog[2].outcome = "written"
    /\ bronze[2].name \in silver

----------------------------------------------------------------------------
(* app/api.py: get_metadata                                                *)
(*                                                                         *)
(* A stored timestamp is <<"none">> (None, or no such field), a text       *)
(* <<"str", form, t, off>> (form "aware": ISO text with UTC offset off;    *)
(* "naive": ISO text without offset; "bad": no ISO text) or <<"dt", t>>,   *)
(* a datetime as the driver returns a BSON date, without tzinfo.  t is     *)
(* the wall-clock reading in seconds.  A datetime object is [t, tz] with   *)
(* tz = <<>> for tzinfo None and <<off>> otherwise; None is <<>>.          *)

NoneValue == <<"none">>

\* datetime.now(timezone.utc) of the request, in seconds
NowSeconds == 7200

\* _to_dt(v)
to_dt(v) ==
    IF v = NoneValue THEN <<>>
    ELSE IF v[1] = "str"
         THEN (IF v[2] = "bad" THEN <<>>
               ELSE <<[t |-> v[3], tz |-> IF v[2] = "aware" THEN <<v[4]>> ELSE <<>>]>>)
    ELSE <<[t |-> v[2], tz |-> <<>>]>>

\* if dt and dt.tzinfo is None: dt = dt.replace(tzinfo=timezone.utc)
as_utc(d) ==
    IF d # <<>> /\ d[1].tz = <<>> THEN <<[t |-> d[1].t, tz |-> <<0>>]>> ELSE d

\* a - b raises TypeError when one operand is naive and the other aware
CanSubtract(a, b) == (a.tz = <<>>) <=> (b.tz = <<>>)

\* (a - b).total_seconds()
total_seconds(a, b) ==
    IF a.tz = <<>> THEN a.t - b.t ELSE (a.t - a.tz[1]) - (b.t - b.tz[1])

\* RefreshInfo(...) and info.dict(): the responses the call can give for
\* these field values.  The delta fields are declared `float = None`: given
\* None, pydantic 1 accepts it and pydantic 2 raises a ValidationError.
RefreshInfo(collection, source_lm, ingest_time, delta_src_ing, delta_ing_now) ==
    {[op |-> "get_metadata", name |-> collection, status |-> 200, docs |-> <<>>,
      count |-> 0,
      info |-> [source_last_modified |-> source_lm,
                ingest_time |-> ingest_time,
                delta_source_to_ingest_seconds |-> delta_src_ing,
                delta_ingest_to_now_seconds |-> delta_ing_now]]}
    \cup (IF delta_src_ing = <<>> \/ delta_ing_now = <<>>
          THEN {ServerError("get_metadata", collection)}
          ELSE {})

\* GET /metadata/{collection}: the set of possible responses
get_metadata(collection, now) ==
    LET found == find_one(meta, collection) IN
    IF found = <<>> THEN {NotFound("get_metadata", collection)}
    ELSE LET source_lm == found[1].last_modified
             ingest_time == found[1].ingest_time
             src_dt == as_utc(to_dt(source_lm))
             ing_dt == as_utc(to_dt(ingest_time))
             now_dt == [t |-> now, tz |-> <<0>>]
         IN  IF \/ src_dt # <<>> /\ ing_dt # <<>> /\ ~CanSubtract(ing_dt[1], src_dt[1])
                \/ ing_dt # <<>> /\ ~CanSubtract(now_dt, ing_dt[1])
             THEN {ServerError("get_metadata", collection)}
             ELSE RefreshInfo(collection, source_lm, ingest_time,
                      IF src_dt # <<>> /\ ing_dt # <<>>
                      THEN <<total_seconds(ing_dt[1], src_dt[1])>> ELSE <<>>,
                      IF ing_dt # <<>>
                      THEN <<total_seconds(now_dt, ing_dt[1])>> ELSE <<>>)

GetMetadata(n) ==
    /\ \E r \in get_metadata(n, NowSeconds) : obs' = r
    /\ UNCHANGED <<runVars, req, silver, goldBucket, gold, clock, aggVars, flowVars, mongoVars,
                   faults, hist, ioLog, kpiVars, cleanVars, silverVars>>

(* get_metadata against every small content of ingest_metadata. *)

Seconds == {0, 600}
Offsets == {0, 3600}

StoredTimes ==
    {NoneValue, <<"str", "bad", 0, 0>>}
    \cup {<<"str", "aware", t, off>> : <<t, off>> \in Seconds \X Offsets}
    \cup {<<"str", "naive", t, 0>> : t \in Seconds}
    \cup {<<"dt", t>> : t \in Seconds}

MetaDocs ==
    {MetaDoc(c, [object_name |-> ObjName(c), last_modified |-> lm], it) :
        <<c, lm, it>> \in KpiStems \X StoredTimes \X StoredTimes}

MetaContents ==
    {m \in SeqsUpTo(MetaDocs, MaxMetaDocs) :
        \A i, k \in 1..Len(m) : i # k => m[i].collection # m[k].collection}

InitMetaSpec ==
    /\ InitBuckets /\ InitAgg /\ InitFlow /\ InitHist /\ InitKpi /\ InitClean /\ InitSilver /\ InitRun
    /\ faults = 0
    /\ store = [c \in KpiStems |-> <<>>]
    /\ meta \in MetaContents
    /\ collections = {m.collection : m \in {meta[i] : i \in 1..Len(meta)}}
    /\ obs = NoObs
    /\ req = NoReq

NextMeta == \E n \in KpiStems : GetMetadata(n)

SpecMeta == InitMetaSpec /\ [][NextMeta]_vars

----------------------------------------------------------------------------
(* Claims about get_metadata *)

\* The instant a stored timestamp denotes, in seconds UTC, a timestamp
\* without offset being read as UTC; <<>> when it is absent or unparsable.
Instant(v) ==
    IF v = NoneValue THEN <<>>
    ELSE IF v[1] = "dt" THEN <<v[2]>>
    ELSE IF v[2] = "bad" THEN <<>>
    ELSE IF v[2] = "naive" THEN <<v[3]>>
    ELSE <<v[3] - v[4]>>

\* The records of ingest_metadata for the table the last request named.
RecordsOfRequest == {i \in 1..Len(meta) : meta[i].collection = obs.name}

\* C19: for a table with a metadata record get_metadata does not fail;
\* delta_source_to_ingest is ingest_time minus source_last_modified in
\* seconds, a timestamp without timezone being UTC, and is absent when
\* either timestamp is absent or unparsable; delta_ingest_to_now is absent
\* when ingest_time is absent or unparsable.
C19_FreshnessDeltas ==
    (obs.op = "get_metadata" /\ RecordsOfRequest # {}) =>
        /\ obs.status = 200
        /\ \A i \in RecordsOfRequest :
              LET src == Instant(meta[i].last_modified)
                  ing == Instant(meta[i].ingest_time)
              IN  /\ obs.info.delta_source_to_ingest_seconds =
                        IF src # <<>> /\ ing # <<>> THEN <<ing[1] - src[1]>> ELSE <<>>
                  /\ obs.info.delta_ingest_to_now_seconds =
                        IF ing # <<>> THEN <<NowSeconds - ing[1]>> ELSE <<>>

\* C20: get_metadata for a table name without a record in ingest_metadata
\* answers 404, and changes nothing in the store.
C20_NoRecordIsNotFound ==
    [][(obs'.op = "get_metadata"
          /\ \A i \in 1..Len(meta) : meta[i].collection # obs'.name)
       => (obs'.status = 404 /\ meta' = meta /\ store' = store
           /\ collections' = collections)]_vars

\* A request was answered 404 while ingest_metadata holds the record of
\* another table.
C20_Witness ==
    /\ obs.op = "get_metadata"
    /\ obs.status = 404
    /\ Len(meta) >= 1
    /\ \A i \in 1..Len(meta) : meta[i].collection # obs.name

----------------------------------------------------------------------------
(* app/api.py: GET /collections *)

SystemPrefix == "system."

\* str.startswith
startswith(c, prefix) ==
    Len(c) >= Len(prefix) /\ SubSeq(c, 1, Len(prefix)) = prefix

\* db.list_collection_names() as a list: the names of the collections, in
\* an order the server chooses (any order).
list_collection_names(names) ==
    {l \in [1..Cardinality(names) -> names] :
        \A i, k \in 1..Cardinality(names) : i # k => l[i] # l[k]}

\* GET /collections, cols being what db.list_collection_names() answered:
\* [c for c in cols if not c.startswith("system.")]
list_collections(cols) ==
    [op |-> "list_collections", name |-> "", status |-> 200,
     docs |-> SelectSeq(cols, LAMBDA c : ~startswith(c, SystemPrefix)),
     count |-> 0]

ReadList ==
    /\ \E cols \in list_collection_names(collections) : obs' = list_collections(cols)
    /\ UNCHANGED <<runVars, req, silver, goldBucket, gold, clock, aggVars, flowVars, mongoVars,
                   faults, hist, ioLog, kpiVars,
                   cleanVars, silverVars>>

\* The publication, on a database that may hold a view, with GET /collections
\* served meanwhile.
InitListSpec ==
    /\ InitBuckets /\ InitAgg /\ InitFlow /\ InitHist /\ InitKpi
    /\ InitClean /\ InitSilver /\ InitRun
    /\ store = [c \in KpiStems |-> <<>>]
    /\ collections \in SUBSET SystemColls
    /\ meta = <<>>
    /\ obs = NoObs
    /\ req = NoReq
    /\ faults = 0

NextList ==
    \/ Next
    \/ ReadList

SpecList == InitListSpec /\ [][NextList]_vars

\* The names a response of GET /collections holds.
Listed(r) == {r.docs[i] : i \in 1..Len(r.docs)}

\* The tables of which a publication (a call of write_df_to_mongo) returned.
Published == {c \in KpiStems : hist[c].okEver}

\* C21: list_collections always succeeds with a list that holds the name of
\* every published KPI table and the name of no internal collection: none
\* that starts with "system.", and not ingest_metadata.
C21_ListsPublishedTablesOnly ==
    [][ReadList =>
          /\ obs'.status = 200
          /\ Published \subseteq Listed(obs')
          /\ \A c \in Listed(obs') : ~startswith(c, SystemPrefix) /\ c # MetaColl
      ]_vars

----------------------------------------------------------------------------
(* Claims about the join of compute_kpis *)

\* The purchases with a valid date (compute_kpis has coerced date_achat).
Dated == {i \in 1..Len(achats) : achats[i].date_achat # NaT}

\* The rows of monthly_revenue of a year-month (not the "NaT" period).
DatedPeriods == {k \in 1..Len(kpis.monthly_revenue) : kpis.monthly_revenue[k].month # 0}

\* C22: each purchase row with a valid date contributes its amount exactly
\* once to monthly_revenue, whatever the clients table contains: the revenue
\* summed over the year-month rows of monthly_revenue equals the sum of the
\* present amounts of the purchases with a valid date, also when several
\* clients rows have the same id_client.
C22_EachPurchaseCountedOnce ==
    kPc = "done" =>
        SumIdx([k \in 1..Len(kpis.monthly_revenue) |-> <<kpis.monthly_revenue[k].revenue>>],
               DatedPeriods)
          = SumIdx([i \in 1..Len(achats) |-> achats[i].montant], Dated)

\* The failing case of C22: one dated purchase of amount 1 by client 1, two
\* clients rows for client 1 that differ in pays, revenue 2.
C22_DoubleCounted ==
    /\ kPc = "done"
    /\ clients = <<[id_client |-> <<1>>, pays |-> <<1>>], [id_client |-> <<1>>, pays |-> <<2>>]>>
    /\ Len(achats) = 1 /\ achats[1].id_client = <<1>> /\ achats[1].montant = <<1>>
    /\ achats[1].date_achat = <<1, 1>>
    /\ kpis.monthly_revenue = <<[month |-> 1, revenue |-> 2, pct_change |-> [num |-> 0, den |-> 1]]>>

----------------------------------------------------------------------------
(* Claims about absent text fields in the cleaning *)

\* The free-text columns: nom, email, produit, pays.
TextColumns(df) == {j \in 1..Len(df.columns) : IsTextName(df.columns[j])}

\* Row k of the cleaned table is raw row i with its absent texts absent.
KeepsAbsent(k, i) ==
    /\ \A j \in TypedColumns(raw) : cleaned.rows[k][j] = Normalized(raw, i)[j]
    /\ \A j \in TextColumns(raw) : isna(raw.rows[i][j]) => isna(cleaned.rows[k][j])

\* C23: the cleaning never turns an absent field into a present value: every
\* row of the cleaned table is a raw row with its identifiers of which every
\* nom, email, produit or pays field that is absent in the raw extract is
\* absent in the cleaned table.
C23_AbsentTextStaysAbsent ==
    cRuns >= 1 =>
        \A k \in 1..Len(cleaned.rows) : \E i \in RowsWithIds : KeepsAbsent(k, i)

\* The failing case of C23: the only retained row is a client without pays,
\* and its cleaned pays is the text "nan".
C23_AbsentBecameText ==
    /\ cRuns >= 1
    /\ has_column(raw, "pays")
    /\ Len(cleaned.rows) = 1
    /\ Cardinality(RowsWithIds) = 1
    /\ \A i \in RowsWithIds : isna(raw.rows[i][ColumnIndex(raw, "pays")])
    /\ cleaned.rows[1][ColumnIndex(raw, "pays")] = <<"str", <<"n", "a", "n">>>>

----------------------------------------------------------------------------
(* run_all.py: main starts the API when none answers, runs the publication *)
(* flow as a subprocess, prints the metadata of the collections and stops  *)
(* the server it started.                                                  *)

\* api_up(api_url) when main starts: a server that ran before answers.
api_up(srv) == srv.external = "running"

\* start_uvicorn: subprocess.Popen of uvicorn
start_uvicorn(srv) == [srv EXCEPT !.child = "running"]

\* `if server_proc: server_proc.terminate()`
terminate(srv, proc) ==
    IF proc = "none" THEN srv ELSE [srv EXCEPT ![proc] = "terminated"]

\* main ends: sys.exit(1), an exception that leaves main, or its last line.
MainEnds(how) ==
    /\ mPc' = "exit"
    /\ mExit' = how

\* main up to the call of wait_for_api (or to run_flow when the API is up)
main ==
    /\ mPc = "idle"
    /\ IF api_up(servers)
       THEN /\ mPc' = "flow"
            /\ UNCHANGED <<servers, server_proc, api_started_by_script>>
       ELSE /\ servers' = start_uvicorn(servers)
            /\ server_proc' = "child"
            /\ api_started_by_script' = TRUE
            /\ mPc' = "wait"
    /\ elapsed' = 0
    /\ UNCHANGED <<req, silver, goldBucket, gold, clock, aggVars, flowVars, mongoVars, obs,
                   faults, hist, ioLog, kpiVars, cleanVars, silverVars,
                   keep_server, timeout, mCols, mLog, mExit>>

\* One round of the loop of wait_for_api, and what main does when it
\* returns False: terminate the server and sys.exit(1).
WaitForApi ==
    /\ mPc = "wait"
    /\ IF elapsed < timeout
       THEN \/ /\ mPc' = "flow"
               /\ UNCHANGED <<elapsed, servers, mExit>>
            \/ /\ elapsed' = elapsed + 1
               /\ UNCHANGED <<mPc, servers, mExit>>
       ELSE /\ servers' = terminate(servers, server_proc)
            /\ MainEnds("api_not_ready")
            /\ UNCHANGED elapsed
    /\ UNCHANGED <<req, silver, goldBucket, gold, clock, aggVars, flowVars, mongoVars, obs,
                   faults, hist, ioLog, kpiVars, cleanVars, silverVars,
                   keep_server, timeout, server_proc, api_started_by_script, mCols, mLog>>

\* run_flow: subprocess.run([python, "-m", "flows.gold_to_mongo"], check=True)
RunFlow ==
    /\ mPc = "flow"
    /\ fRuns = 0
    /\ gold_to_mongo_flow

\* `except subprocess.CalledProcessError`
FlowFailed ==
    /\ servers' = IF api_started_by_script
                  THEN terminate(servers, server_proc) ELSE servers
    /\ MainEnds("flow_failed")

\* The subprocess ends: with a non-zero status when the flow run failed.
RunFlowReturn ==
    /\ mPc = "flow"
    /\ fRuns >= 1
    /\ fPc = "idle"
    /\ IF fOutcome = "failed"
       THEN FlowFailed
       ELSE mPc' = "fetch" /\ UNCHANGED <<servers, mExit>>
    /\ UNCHANGED <<req, silver, goldBucket, gold, clock, aggVars, flowVars, mongoVars, obs,
                   faults, hist, ioLog, kpiVars, cleanVars, silverVars,
                   keep_server, timeout, elapsed, server_proc, api_started_by_script,
                   mCols, mLog>>

\* The subprocess ends with a non-zero status before the flow has listed the
\* gold bucket (the object storage does not answer).
RunFlowCrash ==
    /\ mPc = "flow"
    /\ fRuns = 0
    /\ faults < MaxFaults
    /\ faults' = faults + 1
    /\ FlowFailed
    /\ UNCHANGED <<req, silver, goldBucket, gold, clock, aggVars, flowVars, mongoVars, obs,
                   hist, ioLog, kpiVars, cleanVars, silverVars,
                   keep_server, timeout, elapsed, server_proc, api_started_by_script,
                   mCols, mLog>>

\* fetch_and_print_metadata: GET /collections, raise_for_status, r.json().
\* A request that fails, or a status that is no success, raises; nothing in
\* main catches it.
FetchCollections ==
    /\ mPc = "fetch"
    /\ \/ /\ \E cols \in list_collection_names(collections) :
                /\ obs' = list_collections(cols)
                /\ mCols' = list_collections(cols).docs
          /\ mPc' = "loop"
          /\ UNCHANGED <<faults, mExit>>
       \/ /\ faults < MaxFaults
          /\ faults' = faults + 1
          /\ MainEnds("fetch_raised")
          /\ UNCHANGED <<obs, mCols>>
    /\ UNCHANGED <<req, silver, goldBucket, gold, clock, aggVars, flowVars, mongoVars,
                   hist, ioLog, kpiVars, cleanVars, silverVars,
                   keep_server, timeout, elapsed, servers, server_proc,
                   api_started_by_script, mLog>>

\* One round of `for c in cols`: ingest_metadata is skipped, the status of
\* GET /metadata/{c} is printed, an exception is caught and printed.
FetchMetadata ==
    /\ mPc = "loop"
    /\ mCols # <<>>
    /\ LET c == Head(mCols) IN
       IF c = MetaColl
       THEN UNCHANGED <<mLog, faults>>
       ELSE \/ /\ mLog' = Append(mLog, [collection |-> c,
                                        status |-> IF find_one(meta, c) = <<>>
                                                   THEN 404 ELSE 200])
               /\ UNCHANGED faults
            \/ /\ faults < MaxFaults
               /\ faults' = faults + 1
               /\ mLog' = Append(mLog, [collection |-> c, status |-> 0])
    /\ mCols' = Tail(mCols)
    /\ UNCHANGED <<req, silver, goldBucket, gold, clock, aggVars, flowVars, mongoVars, obs,
                   hist, ioLog, kpiVars, cleanVars, silverVars,
                   mPc, keep_server, timeout, elapsed, servers, server_proc,
                   api_started_by_script, mExit>>

\* The end of main: stop uvicorn if main started it and the user did not ask
\* to keep it.
MainStop ==
    /\ mPc = "loop"
    /\ mCols = <<>>
    /\ servers' = IF api_started_by_script /\ ~keep_server
                  THEN terminate(servers, server_proc) ELSE servers
    /\ MainEnds("done")
    /\ UNCHANGED <<req, silver, goldBucket, gold, clock, aggVars, flowVars, mongoVars, obs,
                   faults, hist, ioLog, kpiVars, cleanVars, silverVars,
                   keep_server, timeout, elapsed, server_proc, api_started_by_script,
                   mCols, mLog>>

(* One run of run_all.py, with or without an API that runs already, with   *)
(* every value of --keep-server and --timeout, over a gold bucket that      *)
(* upstream runs write.                                                     *)

InitRunSpec ==
    /\ InitBuckets /\ InitAgg /\ InitFlow /\ InitMongo /\ InitHist /\ InitKpi
    /\ InitClean /\ InitSilver
    /\ faults = 0
    /\ mPc = "idle"
    /\ keep_server \in BOOLEAN
    /\ timeout \in 0..MaxTimeout
    /\ elapsed = 0
    /\ servers \in {NoServers, [NoServers EXCEPT !.external = "running"]}
    /\ server_proc = "none"
    /\ api_started_by_script = FALSE
    /\ mCols = <<>>
    /\ mLog = <<>>
    /\ mExit = "none"

NextRun ==
    \/ main
    \/ WaitForApi
    \/ RunFlow
    \/ RunFlowReturn
    \/ RunFlowCrash
    \/ ReadObject
    \/ WriteDelete
    \/ WriteInsert
    \/ WriteMeta
    \/ FetchCollections
    \/ FetchMetadata
    \/ MainStop
    \/ \E n \in PubStems : mPc = "idle" /\ UpstreamPut(ObjName(n))

SpecRun == InitRunSpec /\ [][NextRun]_vars

\* C24: on every path by which main ends, the uvicorn process main started
\* has been terminated if and only if main started one and --keep-server was
\* not requested, and a server that was already running is not terminated.
C24_ServerStoppedIffStartedAndNotKept ==
    mPc = "exit" =>
        /\ (servers.child = "terminated") <=> (api_started_by_script /\ ~keep_server)
        /\ servers.external # "terminated"

\* A failing case of C24: the metadata fetch raised in a run that started
\* the server without --keep-server, and the server is still running.
C24_LeftRunning ==
    /\ mPc = "exit"
    /\ mExit = "fetch_raised"
    /\ api_started_by_script /\ ~keep_server
    /\ servers.child = "running"

\* A failing case of C24: the API never became ready, or the flow failed,
\* in a run with --keep-server, and the server was terminated.
C24_StoppedAlthoughKept ==
    /\ mPc = "exit"
    /\ mExit \in {"api_not_ready", "flow_failed"}
    /\ keep_server
    /\ servers.child = "terminated"

\* What holds on every path: main terminates no process but the one it
\* started, and the normal completion stops it exactly when not asked to
\* keep it.
C24_OnlyOwnServerStopped ==
    /\ servers.external # "terminated"
    /\ servers.child = "terminated" => api_started_by_script
    /\ (mPc = "exit" /\ mExit = "done") =>
          ((servers.child = "terminated") <=> (api_started_by_script /\ ~keep_server))
====
